---- MODULE Spec2Model ----
(***************************************************************************)
(* Model of the /swap request handler of run.py (swap_faces) together with *)
(* the ledger client of credit_service.py.  One execution context per      *)
(* request (job); the only state shared between jobs is process_lock, the  *)
(* engine globals and the remote ledger.                                   *)
(***************************************************************************)
EXTENDS Integers, Sequences, FiniteSets, TLC

\* ------------------------------------------------------------------ bounds
NumJobs == 2
MaxDuration == 25          \* largest probed duration, in tenths of a second
MaxNegDuration == 10       \* most negative probed duration, in tenths
MaxFaults == 1             \* failures of the environment over the whole run

Jobs == 1..NumJobs

\* ------------------------------------------------- file names / extensions
\* A file name is a sequence of one-character strings.
Uppers == <<"A","B","C","D","E","F","G","H","I","J","K","L","M",
            "N","O","P","Q","R","S","T","U","V","W","X","Y","Z">>
Lowers == <<"a","b","c","d","e","f","g","h","i","j","k","l","m",
            "n","o","p","q","r","s","t","u","v","w","x","y","z">>

\* str.lower() on one character
LowerChar(c) ==
  IF \E i \in 1..26 : Uppers[i] = c
  THEN Lowers[CHOOSE i \in 1..26 : Uppers[i] = c]
  ELSE c

\* str.lower()
Lower(s) == [i \in 1..Len(s) |-> LowerChar(s[i])]

HasDot(name) == \E i \in 1..Len(name) : name[i] = "."

\* name.split('.')[-1]
LastPart(name) ==
  IF HasDot(name)
  THEN LET d == CHOOSE i \in 1..Len(name) :
                  /\ name[i] = "."
                  /\ \A k \in (i+1)..Len(name) : name[k] # "."
       IN SubSeq(name, d + 1, Len(name))
  ELSE name

\* run.py line 66: target.filename.split('.')[-1] if '.' in it else "mp4"
TargetExt(name) == IF HasDot(name) THEN LastPart(name) ELSE <<"m","p","4">>

ImageExts == { <<"p","n","g">>, <<"j","p","g">>, <<"j","p","e","g">>,
               <<"b","m","p">>, <<"t","i","f","f">> }

\* run.py line 70
IsImageExt(ext) == Lower(ext) \in ImageExts

\* ------------------------------------------------------------ cost (87-103)
CreditsPerSecond == 300
ImageCost == 300

\* math.ceil on a duration given in tenths of a second
CeilFloor(d) == d \div 10
Ceil(d) == (d + 9) \div 10

\* lines 97-99: non-positive duration is replaced by 1.0
EffectiveDuration(d) == IF d <= 0 THEN 10 ELSE d

ResourceType(is_image) ==
  IF is_image THEN "image_generation" ELSE "video_generation"

\* lines 91-102, for a probe that returned the number d (tenths)
Cost(is_image, d) ==
  IF is_image THEN ImageCost
  ELSE Ceil(EffectiveDuration(d)) * CreditsPerSecond

\* ------------------------------------------------------------------ state
VARIABLES
  pc,                  \* position of each request inside swap_faces
  target_name,         \* target.filename
  target_ext,          \* line 66
  is_image,            \* lines 69-74
  duration,            \* what get_video_duration returned (tenths), line 95
  cost,                \* line 88 / 92 / 102
  resource_type,       \* line 89 / 94
  credit,              \* outcome of the balance query, lines 107-109
  files,               \* which of the job's artifacts exist on disk
  exc,                 \* the exception in flight in the job
  resp,                \* the HTTP response sent for the job
  process_lock,        \* line 22: TRUE when the lock is held
  globals,             \* the job whose configuration is in the engine globals
  ledger,              \* the remote credit ledger
  INTERNAL_SERVICE_KEY,\* credit_service.py line 14
  faults,              \* failures of the environment so far
  hist                 \* what has happened to each job (observation only)

vars == << pc, target_name, target_ext, is_image, duration, cost,
           resource_type, credit, files, exc, resp, process_lock, globals,
           ledger, INTERNAL_SERVICE_KEY, faults, hist >>

\* ------------------------------------------------------------ input ranges
PngUpper == <<"a",".","P","N","G">>
Mp4Name  == <<"v",".","m","p","4">>

\* target file names of the requests of the concurrent specification
JobTargetNames == { PngUpper, Mp4Name }

\* target file names of the cost specification
TargetNames ==
  { PngUpper, Mp4Name,
    <<"a",".","p","n","g">>, <<"a",".","J","p","G">>,
    <<"a",".","j","p","e","g">>, <<"a",".","b","m","p">>,
    <<"a",".","T","I","F","F">>, <<"a",".","t","i","f">>,
    <<"a",".","g","i","f">>, <<"p","n","g">>,
    <<"a",".","p","n","g",".","m","o","v">>,
    <<"a",".","m","o","v",".","j","p","g">>, <<"a",".">> }

\* what faceswapper_core.utilities.get_video_duration can do at line 95
NumProbe(d) == [kind |-> "num", d |-> d]
NoneProbe   == [kind |-> "none", d |-> 0]
RaiseProbe  == [kind |-> "raise", d |-> 0]
Probes == { NumProbe(d) : d \in (0 - MaxNegDuration)..MaxDuration }
            \cup { NoneProbe, RaiseProbe }
JobProbes == { NumProbe(24), NoneProbe }

\* the ledger's opening balance
InitialBalances == { 200, 1000 }

\* what the balance endpoint can answer (credit_service.py 39-46)
LedgerReplies == { "ok", "raise", "missing", "null" }

\* values of the environment variable INTERNAL_SERVICE_KEY: unset, blank,
\* and the secret the ledger accepts
ServiceKeys == { "", " ", "secret" }

\* ------------------------------------------------------------- exceptions
NoExc == [type |-> "none", status |-> 0, detail |-> "none"]
HTTPException(status, detail) ==
  [type |-> "HTTPException", status |-> status, detail |-> detail]
OtherException(type, detail) == [type |-> type, status |-> 0, detail |-> detail]

NoResp == [status |-> 0, body |-> "none"]

\* FastAPI: what the caller receives when the handler ends with e in flight,
\* or with the FileResponse of line 181 when no exception is in flight
Response(e) ==
  IF e.type = "none" THEN [status |-> 200, body |-> "artifact"]
  ELSE IF e.type = "HTTPException" THEN [status |-> e.status, body |-> e.detail]
  ELSE [status |-> 500, body |-> "Internal Server Error"]

NoFiles == [source |-> FALSE, target |-> FALSE, output |-> FALSE]

NoCredit == [state |-> "unfetched", balance |-> 0]

NoHist == [ acquired |-> FALSE,       \* the job entered `with process_lock`
            engine |-> "none",        \* none / running / returned / raised
            debits |-> 0,             \* calls of deduct_credits
            debit_failed |-> FALSE,   \* deduct_credits raised
            remove_failed |-> FALSE,  \* an os.remove raised
            removes |-> [source |-> 0, target |-> 0],
            created |-> [source |-> FALSE, target |-> FALSE],
            primary |-> NoExc,        \* the exception the try body raised
            log |-> {} ]              \* what the job printed

Init ==
  /\ pc = [j \in Jobs |-> "idle"]
  /\ target_name = [j \in Jobs |-> << >>]
  /\ target_ext = [j \in Jobs |-> << >>]
  /\ is_image = [j \in Jobs |-> FALSE]
  /\ duration = [j \in Jobs |-> NoneProbe]
  /\ cost = [j \in Jobs |-> 0]
  /\ resource_type = [j \in Jobs |-> "none"]
  /\ credit = [j \in Jobs |-> NoCredit]
  /\ files = [j \in Jobs |-> NoFiles]
  /\ exc = [j \in Jobs |-> NoExc]
  /\ resp = [j \in Jobs |-> NoResp]
  /\ process_lock = FALSE
  /\ globals = 0
  /\ ledger \in [balance : InitialBalances, debits : {{}}, keys : {{}}]
  /\ INTERNAL_SERVICE_KEY \in ServiceKeys
  /\ faults = 0
  /\ hist = [j \in Jobs |-> NoHist]

\* A step in which the environment fails (a write, the probe, a ledger call,
\* the engine or a removal fails) is taken only while fewer than MaxFaults
\* failures have happened.
Fault(failed) ==
  /\ failed => faults < MaxFaults
  /\ faults' = faults + (IF failed THEN 1 ELSE 0)

\* ---------------------------------------------------------------- intake
\* lines 58-78: session id, extensions, paths (the session id is the job)
Receive(j, name) ==
  /\ pc[j] = "idle"
  /\ target_name' = [target_name EXCEPT ![j] = name]
  /\ target_ext' = [target_ext EXCEPT ![j] = TargetExt(name)]
  /\ is_image' = [is_image EXCEPT ![j] = IsImageExt(TargetExt(name))]
  /\ pc' = [pc EXCEPT ![j] = "save_source"]
  /\ UNCHANGED << duration, cost, resource_type, credit, files, exc, resp,
                  process_lock, globals, ledger, INTERNAL_SERVICE_KEY, faults,
                  hist >>

\* lines 82-85: open(path, "wb") and copyfileobj.  ok: the file is written;
\* otherwise the write raised, and `partial` says whether open() had already
\* created the file
SaveFile(j, which, next, ok, partial) ==
  /\ Fault(~ok)
  /\ files' = [files EXCEPT ![j][which] = ok \/ partial]
  /\ IF ok
     THEN /\ pc' = [pc EXCEPT ![j] = next]
          /\ hist' = [hist EXCEPT ![j].created[which] = TRUE]
          /\ UNCHANGED exc
     ELSE /\ pc' = [pc EXCEPT ![j] = "except"]
          /\ exc' = [exc EXCEPT ![j] = OtherException("OSError", "intake")]
          /\ hist' = [hist EXCEPT
                        ![j].created[which] = partial,
                        ![j].primary = OtherException("OSError", "intake")]
  /\ UNCHANGED << target_name, target_ext, is_image, duration, cost,
                  resource_type, credit, resp, process_lock, globals, ledger,
                  INTERNAL_SERVICE_KEY >>

SaveSource(j, ok, partial) ==
  /\ pc[j] = "save_source"
  /\ SaveFile(j, "source", "save_target", ok, partial)

SaveTarget(j, ok, partial) ==
  /\ pc[j] = "save_target"
  /\ SaveFile(j, "target", "estimate", ok, partial)

\* ------------------------------------------------------ cost, lines 88-103
\* `duration <= 0` on None and a raising probe both leave the try body
EstimateCost(j, p) ==
  /\ pc[j] = "estimate"
  /\ Fault(~is_image[j] /\ p.kind # "num")
  /\ resource_type' = [resource_type EXCEPT ![j] = ResourceType(is_image[j])]
  /\ IF is_image[j]
     THEN /\ cost' = [cost EXCEPT ![j] = Cost(TRUE, 0)]
          /\ pc' = [pc EXCEPT ![j] = "check_credit"]
          /\ UNCHANGED << duration, exc, hist >>
     ELSE /\ duration' = [duration EXCEPT ![j] = p]
          /\ IF p.kind = "num"
             THEN /\ cost' = [cost EXCEPT ![j] = Cost(FALSE, p.d)]
                  /\ pc' = [pc EXCEPT ![j] = "check_credit"]
                  /\ hist' = [hist EXCEPT ![j].log =
                       IF p.d <= 0 THEN @ \cup {"Warning: duration"} ELSE @]
                  /\ UNCHANGED exc
             ELSE LET e == OtherException(
                             IF p.kind = "none" THEN "TypeError"
                                                ELSE "Exception", "probe")
                  IN /\ pc' = [pc EXCEPT ![j] = "except"]
                     /\ exc' = [exc EXCEPT ![j] = e]
                     /\ hist' = [hist EXCEPT ![j].primary = e]
                     /\ UNCHANGED cost
  /\ UNCHANGED << target_name, target_ext, is_image, credit, files, resp,
                  process_lock, globals, ledger, INTERNAL_SERVICE_KEY >>

\* ------------------------------------------- ledger client, credit_service
\* str.strip() on the values of ServiceKeys
Strip(key) == IF key = " " THEN "" ELSE key

\* lines 36 and 52: `if not INTERNAL_SERVICE_KEY`
KeyMissing(key) == key = ""

\* _get_headers (16-29): the x-internal-key header of a request
GetHeaders(key) == Strip(key)

\* the ledger answers 401 to a request whose x-internal-key is not the
\* secret, which raise_for_status turns into an exception
LedgerAccepts(header) == header = "secret"

\* the x-internal-key headers the ledger has received: a request is sent
\* unless the key is missing
KeysReceived(keys, key) ==
  IF KeyMissing(key) THEN keys ELSE keys \cup {GetHeaders(key)}

\* ------------------------------------------- credit check, lines 105-119
\* credit_service.get_user_balance (31-46): raises when the key is empty or
\* when the request, raise_for_status or json() raises
BalanceQueryRaises(key, reply) == KeyMissing(key) \/ reply = "raise"

\* line 109: balance_resp.get("data", {}).get("balance", 0);
\* "null" stands for a balance that is present but not a number
FetchedBalance(reply, ledger_balance) ==
  IF reply = "ok" THEN ledger_balance ELSE 0

\* line 112
InsufficientNever(balance, c) == FALSE
InsufficientIfEmpty(balance, c) == balance <= 0
Insufficient(balance, c) == balance < c

\* the outcome of lines 106-119: what was learnt about the balance and the
\* exception raised, if any
CreditCheckFailOpen(key, reply, ledger_balance, c) ==
  IF BalanceQueryRaises(key, reply) \/ reply = "null"
  THEN [state |-> IF reply = "null" /\ ~KeyMissing(key) THEN "typeerror"
                  ELSE "raised",
        balance |-> 0, exc |-> NoExc]
  ELSE LET b == FetchedBalance(reply, ledger_balance)
       IN [state |-> IF reply = "ok" THEN "ok" ELSE "defaulted",
           balance |-> b,
           exc |-> IF Insufficient(b, c)
                   THEN HTTPException(402, "Insufficient credits")
                   ELSE NoExc]
CreditCheck(key, reply, ledger_balance, c) ==
  IF BalanceQueryRaises(key, reply)
  THEN [state |-> "raised", balance |-> 0,
        exc |-> HTTPException(500, "Credit verification failed")]
  ELSE IF reply = "null"
  THEN [state |-> "typeerror", balance |-> 0,
        exc |-> HTTPException(500, "Credit verification failed")]
  ELSE LET b == FetchedBalance(reply, ledger_balance)
       IN [state |-> IF reply = "ok" THEN "ok" ELSE "defaulted",
           balance |-> b,
           exc |-> IF Insufficient(b, c)
                   THEN HTTPException(402, "Insufficient credits")
                   ELSE NoExc]

CheckCredit(j, reply) ==
  /\ pc[j] = "check_credit"
  /\ LedgerAccepts(GetHeaders(INTERNAL_SERVICE_KEY)) \/ reply = "raise"
  /\ Fault(LedgerAccepts(GetHeaders(INTERNAL_SERVICE_KEY)) /\ reply # "ok")
  /\ ledger' = [ledger EXCEPT
                  !.keys = KeysReceived(@, INTERNAL_SERVICE_KEY)]
  /\ LET r == CreditCheck(INTERNAL_SERVICE_KEY, reply, ledger.balance, cost[j])
     IN /\ credit' = [credit EXCEPT ![j] =
                        [state |-> r.state, balance |-> r.balance]]
        /\ exc' = [exc EXCEPT ![j] = r.exc]
        /\ pc' = [pc EXCEPT ![j] =
                    IF r.exc.type = "none" THEN "acquire" ELSE "except"]
        /\ hist' = [hist EXCEPT
                      ![j].primary = r.exc,
                      ![j].log = IF r.state \in {"raised", "typeerror"}
                                 THEN @ \cup {"Credit check failed"} ELSE @]
  /\ UNCHANGED << target_name, target_ext, is_image, duration, cost,
                  resource_type, files, resp, process_lock, globals,
                  INTERNAL_SERVICE_KEY >>

\* ------------------------------------------ processing slot, lines 122-163
\* threading.Lock.acquire blocks while the lock is held
LockFreeAlways(lock) == TRUE
LockFree(lock) == ~lock

\* `with process_lock:` releases on return and on exception alike
LockAfterWithLeak(raised) == raised
LockAfterWith(raised) == FALSE

Acquire(j) ==
  /\ pc[j] = "acquire"
  /\ LockFree(process_lock)
  /\ process_lock' = TRUE
  /\ pc' = [pc EXCEPT ![j] = "configure"]
  /\ hist' = [hist EXCEPT ![j].acquired = TRUE]
  /\ UNCHANGED << target_name, target_ext, is_image, duration, cost,
                  resource_type, credit, files, exc, resp, globals, ledger,
                  INTERNAL_SERVICE_KEY, faults >>

\* lines 126-153: the job's paths and options are written to the globals,
\* then faceswapper_core.core.start() is entered (line 157)
Configure(j) ==
  /\ pc[j] = "configure"
  /\ globals' = j
  /\ pc' = [pc EXCEPT ![j] = "engine"]
  /\ hist' = [hist EXCEPT ![j].engine = "running"]
  /\ UNCHANGED << target_name, target_ext, is_image, duration, cost,
                  resource_type, credit, files, exc, resp, process_lock,
                  ledger, INTERNAL_SERVICE_KEY, faults >>

\* lines 157-163: start() and clean_temp() end, by returning or by raising,
\* having written the output artifact or not; the with block is left
EngineRun(j, raised, wrote) ==
  /\ pc[j] = "engine"
  /\ Fault(raised \/ ~wrote)
  /\ files' = [files EXCEPT ![j].output = wrote]
  /\ process_lock' = LockAfterWith(raised)
  /\ IF raised
     THEN LET e == OtherException("Exception", "engine")
          IN /\ pc' = [pc EXCEPT ![j] = "except"]
             /\ exc' = [exc EXCEPT ![j] = e]
             /\ hist' = [hist EXCEPT ![j].engine = "raised",
                                     ![j].primary = e]
     ELSE /\ pc' = [pc EXCEPT ![j] = "check_output"]
          /\ hist' = [hist EXCEPT ![j].engine = "returned"]
          /\ UNCHANGED exc
  /\ UNCHANGED << target_name, target_ext, is_image, duration, cost,
                  resource_type, credit, resp, globals, ledger,
                  INTERNAL_SERVICE_KEY >>

\* line 166: os.path.exists(output_path)
OutputExistsAlways(f) == TRUE
OutputExists(f) == f.output

\* lines 166 and 182-183
CheckOutput(j) ==
  /\ pc[j] = "check_output"
  /\ IF OutputExists(files[j])
     THEN /\ pc' = [pc EXCEPT ![j] = "debit"]
          /\ UNCHANGED << exc, hist >>
     ELSE LET e == HTTPException(500, "Processing failed, no output generated")
          IN /\ pc' = [pc EXCEPT ![j] = "except"]
             /\ exc' = [exc EXCEPT ![j] = e]
             /\ hist' = [hist EXCEPT ![j].primary = e]
  /\ UNCHANGED << target_name, target_ext, is_image, duration, cost,
                  resource_type, credit, files, resp, process_lock, globals,
                  ledger, INTERNAL_SERVICE_KEY, faults >>

\* ---------------------------------------------------- debit, lines 167-181
Abs(n) == IF n < 0 THEN 0 - n ELSE n

\* credit_service.py lines 55-61
DebitPayloadUnsigned(j, amount, rtype) ==
  [type |-> "USAGE", amount |-> amount, resourceType |-> rtype,
   resourceId |-> j]
DebitPayload(j, amount, rtype) ==
  [type |-> "USAGE", amount |-> 0 - Abs(amount), resourceType |-> rtype,
   resourceId |-> j]

\* credit_service.deduct_credits (48-69): raises when the key is empty or
\* when the request or raise_for_status raises
DebitRaises(key, reply) == KeyMissing(key) \/ reply = "raise"

\* lines 176-181: the failure of the debit is printed and the FileResponse
\* is returned all the same
AfterDebitFatal(raised) ==
  IF raised THEN OtherException("Exception", "debit") ELSE NoExc
AfterDebit(raised) == NoExc

Debit(j, reply) ==
  /\ pc[j] = "debit"
  /\ LedgerAccepts(GetHeaders(INTERNAL_SERVICE_KEY)) \/ reply = "raise"
  /\ Fault(LedgerAccepts(GetHeaders(INTERNAL_SERVICE_KEY)) /\ reply = "raise")
  /\ LET raised == DebitRaises(INTERNAL_SERVICE_KEY, reply)
         payload == DebitPayload(j, cost[j], resource_type[j])
         e == AfterDebit(raised)
     IN /\ ledger' =
             [balance |-> IF raised THEN ledger.balance
                          ELSE ledger.balance + payload.amount,
              debits |-> IF KeyMissing(INTERNAL_SERVICE_KEY)
                         THEN ledger.debits
                         ELSE ledger.debits \cup {payload},
              keys |-> KeysReceived(ledger.keys, INTERNAL_SERVICE_KEY)]
        /\ hist' = [hist EXCEPT
                      ![j].debits = @ + 1,
                      ![j].debit_failed = raised,
                      ![j].primary = e,
                      ![j].log = IF raised
                                 THEN @ \cup {"CRITICAL: Failed to deduct"}
                                 ELSE @]
        /\ exc' = [exc EXCEPT ![j] = e]
        /\ pc' = [pc EXCEPT ![j] =
                    IF e.type = "none" THEN "finally" ELSE "except"]
  /\ UNCHANGED << target_name, target_ext, is_image, duration, cost,
                  resource_type, credit, files, resp, process_lock, globals,
                  INTERNAL_SERVICE_KEY >>

\* ------------------------------------------------- cleanup, lines 185-204
\* lines 188-191: os.remove of the source, then of the target, each only if
\* it exists; sf / tf: the removal of the source / target raises
ExceptCleanup(f, sf, tf) ==
  IF f.source /\ sf
  THEN [files |-> f, raised |-> TRUE, source |-> 0, target |-> 0]
  ELSE IF f.target /\ tf
  THEN [files |-> [f EXCEPT !.source = FALSE], raised |-> TRUE,
        source |-> IF f.source THEN 1 ELSE 0, target |-> 0]
  ELSE [files |-> [f EXCEPT !.source = FALSE, !.target = FALSE],
        raised |-> FALSE,
        source |-> IF f.source THEN 1 ELSE 0,
        target |-> IF f.target THEN 1 ELSE 0]

\* line 192: HTTPException(status_code=500, detail=str(e))
Rewrap(e) == HTTPException(500, e.detail)

\* lines 185-192
ExceptHandler(j, sf, tf) ==
  /\ pc[j] = "except"
  /\ LET c == ExceptCleanup(files[j], sf, tf)
     IN /\ Fault(c.raised)
        /\ files' = [files EXCEPT ![j] = c.files]
        /\ exc' = [exc EXCEPT ![j] =
                     IF c.raised THEN OtherException("OSError", "remove")
                     ELSE Rewrap(exc[j])]
        /\ hist' = [hist EXCEPT
                      ![j].remove_failed = @ \/ c.raised,
                      ![j].removes =
                         [source |-> @.source + c.source,
                          target |-> @.target + c.target],
                      ![j].log = @ \cup {"Error during processing"}]
  /\ pc' = [pc EXCEPT ![j] = "finally"]
  /\ UNCHANGED << target_name, target_ext, is_image, duration, cost,
                  resource_type, credit, resp, process_lock, globals, ledger,
                  INTERNAL_SERVICE_KEY >>

\* lines 198-204: the same two removals inside one try; a removal that
\* raises ends the try block and is printed
FinallyCleanupSourceOnly(f, sf, tf) ==
  IF f.source /\ sf
  THEN [files |-> f, raised |-> TRUE, source |-> 0, target |-> 0]
  ELSE [files |-> [f EXCEPT !.source = FALSE], raised |-> FALSE,
        source |-> IF f.source THEN 1 ELSE 0, target |-> 0]
FinallyCleanup(f, sf, tf) ==
  IF f.source /\ sf
  THEN [files |-> f, raised |-> TRUE, source |-> 0, target |-> 0]
  ELSE IF f.target /\ tf
  THEN [files |-> [f EXCEPT !.source = FALSE], raised |-> TRUE,
        source |-> IF f.source THEN 1 ELSE 0, target |-> 0]
  ELSE [files |-> [f EXCEPT !.source = FALSE, !.target = FALSE],
        raised |-> FALSE,
        source |-> IF f.source THEN 1 ELSE 0,
        target |-> IF f.target THEN 1 ELSE 0]

\* lines 194-204, then the handler ends: the pending return value or the
\* pending exception reaches the framework
FinallyBlock(j, sf, tf) ==
  /\ pc[j] = "finally"
  /\ LET c == FinallyCleanup(files[j], sf, tf)
     IN /\ Fault(c.raised)
        /\ files' = [files EXCEPT ![j] = c.files]
        /\ hist' = [hist EXCEPT
                      ![j].remove_failed = @ \/ c.raised,
                      ![j].removes =
                         [source |-> @.source + c.source,
                          target |-> @.target + c.target],
                      ![j].log = IF c.raised
                                 THEN @ \cup {"Warning: Failed to cleanup"}
                                 ELSE @]
  /\ resp' = [resp EXCEPT ![j] = Response(exc[j])]
  /\ pc' = [pc EXCEPT ![j] = "done"]
  /\ UNCHANGED << target_name, target_ext, is_image, duration, cost,
                  resource_type, credit, exc, process_lock, globals, ledger,
                  INTERNAL_SERVICE_KEY >>

\* ------------------------------------------------------- specifications
\* one step of request j
JobNext(j) ==
  \/ \E name \in JobTargetNames : Receive(j, name)
  \/ \E ok, partial \in BOOLEAN : SaveSource(j, ok, partial)
  \/ \E ok, partial \in BOOLEAN : SaveTarget(j, ok, partial)
  \/ \E p \in JobProbes : EstimateCost(j, p)
  \/ \E reply \in LedgerReplies : CheckCredit(j, reply)
  \/ Acquire(j)
  \/ Configure(j)
  \/ \E raised, wrote \in BOOLEAN : EngineRun(j, raised, wrote)
  \/ CheckOutput(j)
  \/ \E reply \in {"ok", "raise"} : Debit(j, reply)
  \/ \E sf, tf \in BOOLEAN : ExceptHandler(j, sf, tf)
  \/ \E sf, tf \in BOOLEAN : FinallyBlock(j, sf, tf)

Next == \E j \in Jobs : JobNext(j)

Spec == Init /\ [][Next]_vars

\* the cost estimator alone, over every file name and every probe result
CostNext ==
  \/ \E name \in TargetNames : Receive(1, name)
  \/ \E ok, partial \in BOOLEAN : SaveSource(1, ok, partial)
  \/ \E ok, partial \in BOOLEAN : SaveTarget(1, ok, partial)
  \/ \E p \in Probes : EstimateCost(1, p)

CostSpec == Init /\ [][CostNext]_vars

\* The requests under fair scheduling.  Every request is handled by a thread
\* of its own that keeps running; the engine call and the ledger calls
\* return or raise, and these are the only failures of the environment.
FairJobNext(j) ==
  \/ \E name \in JobTargetNames : Receive(j, name)
  \/ SaveSource(j, TRUE, FALSE)
  \/ SaveTarget(j, TRUE, FALSE)
  \/ EstimateCost(j, NumProbe(24))
  \/ \E reply \in {"ok", "raise"} : CheckCredit(j, reply)
  \/ Acquire(j)
  \/ Configure(j)
  \/ \E raised, wrote \in BOOLEAN : EngineRun(j, raised, wrote)
  \/ CheckOutput(j)
  \/ \E reply \in {"ok", "raise"} : Debit(j, reply)
  \/ ExceptHandler(j, FALSE, FALSE)
  \/ FinallyBlock(j, FALSE, FALSE)

FairNext == \E j \in Jobs : FairJobNext(j)

FairSpec ==
  Init /\ [][FairNext]_vars /\ \A j \in Jobs : WF_vars(FairJobNext(j))

\* ================================================================ claims
Done(j) == pc[j] = "done"
InSlot(j) == pc[j] \in {"configure", "engine"}
Artifact == [status |-> 200, body |-> "artifact"]
\* the balance the job compared with its cost was fetched and was too small
Underfunded(j) ==
  credit[j].state \in {"ok", "defaulted"} /\ credit[j].balance < cost[j]
\* the engine returned normally and the output artifact exists
EngineSucceeded(j) == hist[j].engine = "returned" /\ files[j].output

\* C1: at every instant at most one job is between acquiring and releasing
\* process_lock, so no two engine invocations overlap.
C1_MutualExclusion ==
  Cardinality({ j \in Jobs : InSlot(j) }) <= 1

C1_Witness ==
  \E j, k \in Jobs : j # k /\ pc[j] = "engine" /\ pc[k] = "acquire"

\* C2: a job whose fetched balance is below its cost never acquires the slot
\* and never invokes the engine; a job that holds or held the slot had
\* fetched a balance of at least its cost beforehand.
C2_UnderfundedNeverProcesses ==
  \A j \in Jobs :
    /\ Underfunded(j) =>
         /\ ~hist[j].acquired
         /\ hist[j].engine = "none"
         /\ pc[j] \in {"except", "finally", "done"}
    /\ (hist[j].acquired \/ pc[j] = "acquire") =>
         /\ credit[j].state \in {"ok", "defaulted"}
         /\ credit[j].balance >= cost[j]

C2_Witness ==
  \E j \in Jobs : Done(j) /\ credit[j].state = "ok" /\ Underfunded(j)

\* C3: a job whose fetched balance is below its cost is answered with
\* status 402.
C3_UnderfundedGets402 ==
  \A j \in Jobs :
    (Done(j) /\ credit[j].state = "ok" /\ Underfunded(j))
      => resp[j].status = 402

\* C4: deduct_credits is called at most once per job, only after the engine
\* returned normally with the output present, and a completed job has made
\* exactly one call if its engine invocation succeeded and none otherwise.
C4_DebitIffEngineSucceeded ==
  \A j \in Jobs :
    /\ hist[j].debits <= 1
    /\ hist[j].debits = 1 => EngineSucceeded(j)
    /\ Done(j) => (hist[j].debits = 1 <=> EngineSucceeded(j))

C4_Witness ==
  \E j, k \in Jobs :
    /\ Done(j) /\ hist[j].debits = 1
    /\ Done(k) /\ hist[k].engine = "raised" /\ hist[k].debits = 0

\* C5: when the engine succeeded and deduct_credits raised, the caller still
\* receives the artifact as a success response, the output is on disk and
\* the failure was only printed.
C5_DebitFailureNotSurfaced ==
  \A j \in Jobs :
    (Done(j) /\ hist[j].debit_failed) =>
      /\ resp[j] = Artifact
      /\ files[j].output
      /\ "CRITICAL: Failed to deduct" \in hist[j].log

C5_Witness ==
  \E j \in Jobs :
    Done(j) /\ hist[j].debit_failed /\ INTERNAL_SERVICE_KEY = "secret"

\* C6 (as claimed): once a request has completed, its source and target
\* artifacts are absent from storage.
C6_InputsAbsent ==
  \A j \in Jobs : Done(j) => ~files[j].source /\ ~files[j].target

\* C6 (amended): once a request has completed, its source and target
\* artifacts are absent from storage unless an os.remove of the finally
\* block raised.
C6_InputsAbsentUnlessFinallyRemoveRaised ==
  \A j \in Jobs :
    (Done(j) /\ "Warning: Failed to cleanup" \notin hist[j].log)
      => ~files[j].source /\ ~files[j].target

C6_Witness ==
  \E j \in Jobs :
    /\ Done(j) /\ "Warning: Failed to cleanup" \notin hist[j].log
    /\ resp[j] = Artifact
    /\ hist[j].removes = [source |-> 1, target |-> 1]

\* C7: a removal that raises never changes the outcome of the job: the
\* caller receives the artifact when the try body raised nothing, and the
\* detail of the error the try body raised otherwise.
C7_CleanupNeverAltersOutcome ==
  \A j \in Jobs :
    Done(j) =>
      IF hist[j].primary = NoExc THEN resp[j] = Artifact
      ELSE resp[j].body = hist[j].primary.detail

\* C8: when get_user_balance raises, the job fails with the credit
\* verification error, is answered with status 500, never acquires the
\* slot, never invokes the engine and makes no debit.
C8_BalanceFailureAborts ==
  \A j \in Jobs :
    credit[j].state = "raised" =>
      /\ hist[j].primary = HTTPException(500, "Credit verification failed")
      /\ pc[j] \in {"except", "finally", "done"}
      /\ ~hist[j].acquired
      /\ hist[j].engine = "none"
      /\ hist[j].debits = 0
      /\ Done(j) => resp[j].status = 500

C8_Witness ==
  \E j \in Jobs :
    Done(j) /\ credit[j].state = "raised" /\ INTERNAL_SERVICE_KEY = "secret"

\* C9: after a request has completed, its output artifact exists if and
\* only if the job succeeded.
C9_OutputIffSucceeded ==
  \A j \in Jobs : Done(j) => (files[j].output <=> resp[j] = Artifact)

\* C10: the cost depends only on the target's kind and duration: a target
\* whose name ends in .png, .jpg, .jpeg, .bmp or .tiff (in any letter case)
\* is an "image_generation" of cost 300; any other target is a
\* "video_generation" of cost ceil(d) * 300, d being the probed duration if
\* positive and 1.0 otherwise; the cost is a non-negative integer.
SameLetter(c, low) ==
  c = low \/ \E i \in 1..26 : c = Uppers[i] /\ low = Lowers[i]
EndsWithExt(name, e) ==
  /\ Len(name) > Len(e)
  /\ name[Len(name) - Len(e)] = "."
  /\ \A i \in 1..Len(e) : SameLetter(name[Len(name) - Len(e) + i], e[i])
IsImageName(name) == \E e \in ImageExts : EndsWithExt(name, e)
Estimated(j) ==
  /\ pc[j] \notin {"idle", "save_source", "save_target", "estimate"}
  /\ hist[j].primary.detail \notin {"intake", "probe"}

C10_CostFunction ==
  \A j \in Jobs :
    Estimated(j) =>
      /\ cost[j] \in Nat
      /\ IF IsImageName(target_name[j])
         THEN resource_type[j] = "image_generation" /\ cost[j] = 300
         ELSE /\ resource_type[j] = "video_generation"
              /\ duration[j].kind = "num"
              /\ LET d == IF duration[j].d > 0 THEN duration[j].d ELSE 10
                 IN \E n \in 1..(MaxDuration \div 10 + 1) :
                      /\ cost[j] = n * 300
                      /\ 10 * (n - 1) < d
                      /\ d <= 10 * n

C10_Witness ==
  \E j \in Jobs :
    /\ Estimated(j)
    /\ target_name[j] = Mp4Name
    /\ duration[j] = NumProbe(24)
    /\ cost[j] = 900

\* C11: two concurrent requests of one account, each of a cost that fits the
\* balance while their sum does not, can both pass the balance check on the
\* same balance, run the engine one after the other and both debit, leaving
\* the ledger overdrawn; the slot does not prevent it.  Every job that
\* debits had fetched a balance covering its own cost, so that the ledger
\* is never overdrawn by the debit of a single job.
DebitApplied(j) == hist[j].debits = 1 /\ ~hist[j].debit_failed

C11_OverdraftNeedsTwoDebits ==
  /\ \A j \in Jobs :
       DebitApplied(j) =>
         credit[j].state = "ok" /\ credit[j].balance >= cost[j]
  /\ ledger.balance < 0 =>
       \E j, k \in Jobs : j # k /\ DebitApplied(j) /\ DebitApplied(k)

C11_Witness ==
  \E j, k \in Jobs :
    /\ j # k
    /\ Done(j) /\ Done(k)
    /\ DebitApplied(j) /\ DebitApplied(k)
    /\ credit[j].balance = credit[k].balance
    /\ cost[j] <= credit[j].balance /\ cost[k] <= credit[k].balance
    /\ cost[j] + cost[k] > credit[j].balance
    /\ ledger.balance = credit[j].balance - cost[j] - cost[k]
    /\ ledger.balance < 0

\* C12: no request reaches the ledger with an empty x-internal-key: when
\* the secret is absent the balance query fails before anything is sent.
C12_NoCallWithEmptySecret ==
  /\ "" \notin ledger.keys
  /\ GetHeaders(INTERNAL_SERVICE_KEY) = "" =>
       /\ ledger.keys = {}
       /\ \A j \in Jobs : credit[j].state \in {"unfetched", "raised"}

\* C13: a balance reply that does not carry data.balance as an integer
\* fails the job with the credit verification error, never with an
\* insufficient-funds error computed from a substituted balance.
C13_MalformedIsVerificationFailure ==
  \A j \in Jobs :
    credit[j].state \in {"defaulted", "typeerror"} =>
      hist[j].primary = HTTPException(500, "Credit verification failed")

\* C14: the lock is held exactly while some job is between entering the with
\* block and the end of its engine call: a job that queries the balance,
\* checks the output, debits, cleans up or has answered does not hold it,
\* and a job that entered the with block had its balance query answered.
AfterSlot(j) == hist[j].engine \in {"returned", "raised"}

C14_SlotHeldOnlyAroundEngine ==
  /\ process_lock <=> \E j \in Jobs : InSlot(j)
  /\ \A j \in Jobs :
       /\ InSlot(j) <=> (hist[j].acquired /\ ~AfterSlot(j))
       /\ hist[j].acquired => credit[j].state \in {"ok", "defaulted"}
       /\ pc[j] \in {"check_output", "debit"} => AfterSlot(j)
       /\ hist[j].debits > 0 => AfterSlot(j)

C14_Witness ==
  \E j, k \in Jobs :
    /\ j # k
    /\ hist[k].engine = "raised" /\ pc[k] \in {"except", "finally"}
    /\ pc[j] = "engine"

\* C15: estimating the cost never fails a job: a job whose inputs were
\* saved reaches the balance check, whatever the duration probe did.
C15_EstimateNeverFails ==
  \A j \in Jobs :
    /\ hist[j].primary.detail # "probe"
    /\ (pc[j] \notin {"idle", "save_source", "save_target", "estimate"}
        /\ hist[j].primary.detail # "intake")
         => credit[j].state # "unfetched"

\* C16: when the engine returned without raising and the output artifact
\* does not exist, the job fails with the processing error, the caller gets
\* status 500 and no artifact, and no debit is attempted.
NoOutput(j) ==
  /\ hist[j].engine = "returned"
  /\ ~files[j].output
  /\ pc[j] # "check_output"

C16_NoOutputIsFailure ==
  \A j \in Jobs :
    NoOutput(j) =>
      /\ hist[j].primary =
           HTTPException(500, "Processing failed, no output generated")
      /\ pc[j] \in {"except", "finally", "done"}
      /\ hist[j].debits = 0
      /\ Done(j) => resp[j].status = 500 /\ resp[j] # Artifact

C16_Witness ==
  \E j \in Jobs :
    /\ Done(j) /\ NoOutput(j)
    /\ resp[j] = [status |-> 500,
                  body |-> "Processing failed, no output generated"]

\* C17: every debit request carries the amount -cost, cost being the value
\* the job compared with the balance it fetched (and found covered), and
\* the resource type of the job's media kind.
C17_DebitIsTheCheckedCost ==
  \A p \in ledger.debits :
    LET j == p.resourceId
    IN /\ p.type = "USAGE"
       /\ p.amount < 0
       /\ p.amount = 0 - cost[j]
       /\ credit[j].state = "ok" /\ cost[j] <= credit[j].balance
       /\ p.resourceType = IF IsImageName(target_name[j])
                           THEN "image_generation" ELSE "video_generation"

C17_Witness ==
  \E p \in ledger.debits :
    /\ p.amount = 0 - 900
    /\ p.resourceType = "video_generation"
    /\ Done(p.resourceId)

RemovedOnceIfCreated(j, which) ==
  hist[j].removes[which] = IF hist[j].created[which] THEN 1 ELSE 0

C19_GlobalsBelongToRunningJob ==
  \A j \in Jobs : pc[j] = "engine" => globals = j

C19_Witness ==
  \E j, k \in Jobs :
    /\ j # k
    /\ AfterSlot(k)
    /\ pc[j] = "engine" /\ globals = j

\* C20: every request that has arrived is eventually answered, also when
\* it has to wait for the slot behind a job whose engine call raises.
C20_EveryRequestCompletes ==
  \A j \in Jobs : (pc[j] # "idle") ~> (Done(j) /\ resp[j] # NoResp)

C20_Witness ==
  \E j, k \in Jobs :
    /\ j # k
    /\ Done(k) /\ hist[k].engine = "raised"
    /\ Done(j) /\ hist[j].acquired /\ globals = j

====
